---- MODULE Spec2Model ----
(***************************************************************************)
(* ConversationManager of src/app.py: the conversation log, the persona    *)
(* registry, the token budget enforcer, the history file and the           *)
(* completion call, as a state machine.                                    *)
(*                                                                         *)
(* Texts are strings taken as atoms.  What the program asks of a text is   *)
(* its truth value (`not custom_message`) and its token count; each is an  *)
(* operator over the texts of the model.                                   *)
(***************************************************************************)
EXTENDS Integers, Sequences, FiniteSets, TLC

VARIABLES
    api_key,               \* self.api_key (the client is rebuilt from it)
    token_budget,          \* self.token_budget
    system_messages,       \* self.system_messages: persona key -> text
    system_message,        \* self.system_message: the current persona text
    conversation_history,  \* self.conversation_history: sequence of messages
    history_file,          \* the content of the file named self.history_file
    last,                  \* the outcome of the last call, as its caller sees it
    pc,                    \* position in enforce_token_budget's loop (SpecEnforce)
                           \* and in save_conversation_history (SpecSave)
    enforce_in,            \* the log enforce_token_budget started from (SpecEnforce)
    client,                \* self.client: the credential the client was built with
    \* What an observer of the run records; the program holds none of it.
    sent,                  \* ages in seconds of the requests of the last period (SpecRate)
    appended,              \* messages appended since the last construct or reset (SpecHistory)
    base,                  \* chat messages the last construct loaded (SpecHistory)
    observed               \* what a reader of the file has seen (SpecSave)

vars == <<api_key, token_budget, system_messages, system_message,
          conversation_history, history_file, last, pc, enforce_in,
          client, sent, appended, base, observed>>

(***************************************************************************)
(* Bounds of the model.                                                    *)
(***************************************************************************)
\* The longest log: chat_completion is not taken when its two appends would
\* pass it.
MaxLen == 3
\* The largest token budget SpecEnforce tries.
MaxBudget == 8

\* Python's None.
None == "None"

(***************************************************************************)
(* Texts.                                                                  *)
(***************************************************************************)
DefaultText     == "You are a helpful assistant."
SassyText       == "You are a sassy assistant that is fed up with answering questions."
AngryText       == "You are an angry assistant that likes yelling in all caps."
ThoughtfulText  == "You are a thoughtful assistant, always ready to dig deeper. ..."
CustomText      == "Enter your custom system message here."

\* What the shell's text area can hand to set_custom_system_message.
EmptyText  == ""
BlankText  == "   "
PirateText == "Talk like a pirate."
CustomInputs == {EmptyText, BlankText, PirateText}

\* What the shell's chat input can hand to chat_completion.  The last one
\* holds the text of a special token, which encoding.encode refuses.
StoryPrompt   == "tell me a long story"
SpecialPrompt == "<|endoftext|>"
Prompts == {StoryPrompt, SpecialPrompt}

\* What the completion endpoint can answer.
Replies == {"ok"}

\* What update_api_key and the constructor can be handed.
Credentials == {"", "sk-1"}

\* The keys of the persona registry.
PersonaKeys == {"default_assistant", "sassy_assistant", "angry_assistant",
                "thoughtful_assistant", "custom"}
\* What set_persona is handed: keys of the registry and a key that is none.
UnknownKey    == "pirate_assistant"
PersonaInputs == {"sassy_assistant", "thoughtful_assistant", "custom", UnknownKey}

\* `not text`: Python's truth value of a string.
IsFalsy(text) == text = EmptyText

(***************************************************************************)
(* Messages.                                                               *)
(***************************************************************************)
Message(role, content) == [role |-> role, content |-> content]

SystemMessage(text) == Message("system", text)

\* pop taking the newest message, whatever the index.
Pop_Newest(h, i) == SubSeq(h, 1, Len(h) - 1)

\* list.pop(i), with Python's index i (0-based).
Pop(h, i) == [j \in 1..(Len(h) - 1) |-> IF j <= i THEN h[j] ELSE h[j + 1]]

\* list.insert(0, m)
InsertFront(h, m) == <<m>> \o h

(***************************************************************************)
(* Tokenizer (count_tokens, total_tokens_used).                            *)
(***************************************************************************)
\* encoding.encode(text) raises on a text that holds a special token.
CanEncode(text) == text # SpecialPrompt

\* len(encoding.encode(text)); the counts are small stand-ins for tiktoken's,
\* fixed per text.
count_tokens(text) ==
    CASE text = EmptyText      -> 0
      [] text = BlankText      -> 1
      [] text = "ok"           -> 1
      [] text = DefaultText    -> 2
      [] text = PirateText     -> 2
      [] text = SassyText      -> 3
      [] text = AngryText      -> 3
      [] text = CustomText     -> 3
      [] text = StoryPrompt    -> 3
      [] text = ThoughtfulText -> 4

RECURSIVE SumTokens(_)
SumTokens(h) ==
    IF h = <<>> THEN 0 ELSE count_tokens(Head(h).content) + SumTokens(Tail(h))

\* Whether total_tokens_used gets through its sum: count_tokens raises on
\* the first message it cannot encode, and the method then returns None.
CanCount(h) == \A i \in 1..Len(h) : CanEncode(h[i].content)

\* sum(count_tokens(m['content']) ...), or None when count_tokens raises.
total_tokens_used(h) == IF CanCount(h) THEN SumTokens(h) ELSE None

(***************************************************************************)
(* Budget enforcer (enforce_token_budget).                                 *)
(***************************************************************************)
\* EnforceBranch with the floor off by one: the loop stops at two messages.
EnforceBranch_FloorOfTwo(h, budget) ==
    IF ~CanCount(h) THEN "except"
    ELSE IF ~(total_tokens_used(h) > budget) THEN "exit"
    ELSE IF Len(h) <= 2 THEN "break"
    ELSE "pop"

\* One evaluation of the while condition and of the if in the body.
\*   "except": total_tokens_used() is None, `None > budget` raises TypeError,
\*             caught at the end of the method;
\*   "exit":   the while condition is false;
\*   "break":  over the budget with at most one message;
\*   "pop":    over the budget, pop(1).
EnforceBranch(h, budget) ==
    IF ~CanCount(h) THEN "except"
    ELSE IF ~(total_tokens_used(h) > budget) THEN "exit"
    ELSE IF Len(h) <= 1 THEN "break"
    ELSE "pop"

\* The index enforce_token_budget pops.
PopIndex == 1

\* The whole method: the log it leaves.
RECURSIVE enforce_token_budget(_, _)
enforce_token_budget(h, budget) ==
    IF EnforceBranch(h, budget) = "pop"
    THEN enforce_token_budget(Pop(h, PopIndex), budget)
    ELSE h

(***************************************************************************)
(* Persona registry and system message.                                    *)
(***************************************************************************)
\* self.system_messages as __init__ builds it.
InitialSystemMessages ==
    [k \in PersonaKeys |->
        CASE k = "default_assistant"    -> DefaultText
          [] k = "sassy_assistant"      -> SassyText
          [] k = "angry_assistant"      -> AngryText
          [] k = "thoughtful_assistant" -> ThoughtfulText
          [] k = "custom"               -> CustomText]

\* update_system_message_in_history without the test of index 0: it always
\* inserts.
update_system_message_in_history_AlwaysInsert(h, text) ==
    InsertFront(h, SystemMessage(text))

\* update_system_message_in_history rebuilding the log from the new system
\* message alone.
update_system_message_in_history_Rebuild(h, text) == <<SystemMessage(text)>>

\* update_system_message_in_history left out: the log keeps the old text.
update_system_message_in_history_Skip(h, text) == h

\* update_system_message_in_history: the log it leaves.
update_system_message_in_history(h, text) ==
    IF h # <<>> /\ h[1].role = "system"
    THEN [h EXCEPT ![1].content = text]
    ELSE InsertFront(h, SystemMessage(text))

(***************************************************************************)
(* History store.                                                          *)
(***************************************************************************)
\* json.dump of the log: the array of objects as the file holds it, each
\* object as its (key, value) pairs in the order written.
JsonDump(h) ==
    [i \in 1..Len(h) |-> <<<<"role", h[i].role>>, <<"content", h[i].content>>>>]

\* JsonGet reading the first pair whatever the key.
JsonGet_FirstPair(obj, k) == obj[1][2]

\* The value of key k in a parsed object.
JsonGet(obj, k) == obj[CHOOSE i \in 1..Len(obj) : obj[i][1] = k][2]

\* json.load of what JsonDump wrote: the list of dicts.
JsonLoad(data) ==
    [i \in 1..Len(data) |->
        [role |-> JsonGet(data[i], "role"), content |-> JsonGet(data[i], "content")]]

\* The file: absent, holding text json.load refuses (also the empty or cut
\* short file a failed write leaves), or holding a dumped log.
AbsentFile     == [kind |-> "absent",  data |-> <<>>]
CorruptFile    == [kind |-> "corrupt", data |-> <<>>]
JsonFile(data) == [kind |-> "json",    data |-> data]

\* How the write of the file can go: done; open() raises and the file is as
\* it was; open() truncated the file and the dump raises part way.
IOOutcomes == {"ok", "open_failed", "write_failed"}

\* load_conversation_history starting from the empty list its message
\* speaks of ("Starting with an empty history").
load_conversation_history_Empty(file, text) ==
    IF file.kind = "json" THEN JsonLoad(file.data) ELSE <<>>

\* load_conversation_history: the log it leaves.
load_conversation_history(file, text) ==
    IF file.kind = "json"
    THEN JsonLoad(file.data)
    ELSE <<SystemMessage(text)>>   \* FileNotFoundError, json.JSONDecodeError

\* save_conversation_history: the file it leaves; every exception is caught.
save_conversation_history(h, file, io) ==
    CASE io = "ok"           -> JsonFile(JsonDump(h))
      [] io = "open_failed"  -> file
      [] io = "write_failed" -> CorruptFile

(***************************************************************************)
(* The outcome of a call, as its caller sees it.                           *)
(*   raised:     "none" or the exception that reached the caller           *)
(*   returned:   the value returned (None when the method returns nothing) *)
(*   completion: "none" when no request was issued, else how it went       *)
(*   st_error:   the st.error shown ("none", "auth", "other")              *)
(*   save:       "none" when no save was tried, else how it went           *)
(*   requests:   how many completion requests the call issued              *)
(*   credential: the credential of the client that issued them, or None    *)
(***************************************************************************)
Outcome(op, arg, raised, returned, completion, st_error, save) ==
    [op |-> op, arg |-> arg, raised |-> raised, returned |-> returned,
     completion |-> completion, st_error |-> st_error, save |-> save,
     requests |-> 0, credential |-> None]

\* How the completion request can go: a reply; an exception whose text
\* holds "Incorrect API key"; any other exception.
CompletionOutcomes == {"ok", "auth_error", "other_error"}

\* Token budgets a controller is constructed with.
Budgets == {6}

(***************************************************************************)
(* Operations.                                                             *)
(***************************************************************************)
\* ConversationManager(key, history_file=<the same path>): a new controller
\* over the file the last one left.
ConversationManager_init(key) ==
    /\ api_key' = key
    /\ client' = key
    /\ system_messages' = InitialSystemMessages
    /\ system_message' = InitialSystemMessages["sassy_assistant"]
    /\ conversation_history' =
           load_conversation_history(history_file,
                                     InitialSystemMessages["sassy_assistant"])
    /\ last' = Outcome("__init__", key, "none", None, "none", "none", "none")
    /\ UNCHANGED <<token_budget, history_file, pc, enforce_in>>

\* set_persona falling back to the default assistant for a key it does not
\* know, instead of raising.
set_persona_Fallback(persona) ==
    /\ system_message' =
           IF persona \in DOMAIN system_messages
           THEN system_messages[persona]
           ELSE system_messages["default_assistant"]
    /\ conversation_history' =
           update_system_message_in_history(conversation_history, system_message')
    /\ last' = Outcome("set_persona", persona, "none", None, "none", "none", "none")
    /\ UNCHANGED <<api_key, client, token_budget, system_messages, history_file,
                   pc, enforce_in>>

set_persona(persona) ==
    /\ IF persona \in DOMAIN system_messages
       THEN /\ system_message' = system_messages[persona]
            /\ conversation_history' =
                   update_system_message_in_history(conversation_history,
                                                    system_messages[persona])
            /\ last' = Outcome("set_persona", persona, "none", None,
                               "none", "none", "none")
       ELSE /\ last' = Outcome("set_persona", persona, "ValueError", None,
                               "none", "none", "none")
            /\ UNCHANGED <<system_message, conversation_history>>
    /\ UNCHANGED <<api_key, client, token_budget, system_messages, history_file,
                   pc, enforce_in>>

set_custom_system_message(custom_message) ==
    /\ IF IsFalsy(custom_message)
       THEN /\ last' = Outcome("set_custom_system_message", custom_message,
                               "ValueError", None, "none", "none", "none")
            /\ UNCHANGED <<system_messages, system_message, conversation_history>>
       ELSE \* 'custom' is a key of the registry: set_persona('custom') succeeds
            /\ system_messages' = [system_messages EXCEPT !["custom"] = custom_message]
            /\ system_message' = custom_message
            /\ conversation_history' =
                   update_system_message_in_history(conversation_history,
                                                    custom_message)
            /\ last' = Outcome("set_custom_system_message", custom_message,
                               "none", None, "none", "none", "none")
    /\ UNCHANGED <<api_key, client, token_budget, history_file, pc, enforce_in>>

\* ChatLog with the append of the reply after the try block: it runs on a
\* failed request too, with None for the reply.
ChatLog_AppendAlways(h, prompt, budget, completion, reply) ==
    LET trimmed == enforce_token_budget(Append(h, Message("user", prompt)), budget)
    IN  Append(trimmed,
               Message("assistant", IF completion = "ok" THEN reply ELSE None))

\* The log chat_completion leaves: the user message appended, the budget
\* enforced, and the reply appended when the request succeeded.
ChatLog(h, prompt, budget, completion, reply) ==
    LET trimmed == enforce_token_budget(Append(h, Message("user", prompt)), budget)
    IN  IF completion = "ok"
        THEN Append(trimmed, Message("assistant", reply))
        ELSE trimmed

\* What chat_completion hands its caller: the reply, or None from the
\* except branch, which catches every exception of the request.
ChatReturned(completion, reply) == IF completion = "ok" THEN reply ELSE None

ChatRaised(completion) == "none"

\* ChatStError with one message for every failure.
ChatStError_OneMessage(completion) ==
    IF completion = "ok" THEN "none" ELSE "other"

\* The st.error the except branch shows.
ChatStError(completion) ==
    CASE completion = "ok"          -> "none"
      [] completion = "auth_error"  -> "auth"
      [] completion = "other_error" -> "other"

\* ChatFile saving before the reply is appended.
ChatFile_SaveBeforeReply(h, file, completion, io) ==
    IF completion = "ok"
    THEN save_conversation_history(SubSeq(h, 1, Len(h) - 1), file, io)
    ELSE file

\* ChatFile with the save in a finally block: it runs on a failed request too.
ChatFile_SaveAlways(h, file, completion, io) ==
    save_conversation_history(h, file, io)

\* The file chat_completion leaves: saved after the reply is appended only.
ChatFile(h, file, completion, io) ==
    IF completion = "ok" THEN save_conversation_history(h, file, io) ELSE file

\* ChatRequests with a second attempt after a failure.
ChatRequests_Retry(completion) == IF completion = "ok" THEN 1 ELSE 2

\* How many times chat_completion calls self.client.chat.completions.create:
\* once in the try block, with no loop around it.
ChatRequests(completion) == 1

\* chat_completion with a save that lets its exception out: the except
\* branch of chat_completion catches it, shows it and returns None.
chat_completion_SavePropagates(prompt, completion, reply, io) ==
    /\ Len(ChatLog(conversation_history, prompt, token_budget, completion, reply))
           <= MaxLen
    /\ conversation_history' =
           ChatLog(conversation_history, prompt, token_budget, completion, reply)
    /\ history_file' = ChatFile(conversation_history', history_file, completion, io)
    /\ last' = [Outcome("chat_completion", prompt, "none",
                        IF completion = "ok" /\ io = "ok" THEN reply ELSE None,
                        completion,
                        IF completion = "ok" /\ io # "ok"
                        THEN "other" ELSE ChatStError(completion),
                        IF completion = "ok" THEN io ELSE "none")
                    EXCEPT !.requests = 1, !.credential = client]
    /\ UNCHANGED <<api_key, client, token_budget, system_messages, system_message,
                   pc, enforce_in>>

chat_completion(prompt, completion, reply, io) ==
    /\ Len(ChatLog(conversation_history, prompt, token_budget, completion, reply))
           <= MaxLen
    /\ conversation_history' =
           ChatLog(conversation_history, prompt, token_budget, completion, reply)
    /\ history_file' = ChatFile(conversation_history', history_file, completion, io)
    /\ last' = [Outcome("chat_completion", prompt, ChatRaised(completion),
                        ChatReturned(completion, reply), completion,
                        ChatStError(completion),
                        IF completion = "ok" THEN io ELSE "none")
                    EXCEPT !.requests = ChatRequests(completion),
                           !.credential = client]
    /\ UNCHANGED <<api_key, client, token_budget, system_messages, system_message,
                   pc, enforce_in>>

\* ResetLog going back to the persona of a new controller.
ResetLog_InitialPersona(text) ==
    <<SystemMessage(InitialSystemMessages["sassy_assistant"])>>

\* The log reset_conversation_history leaves.
ResetLog(text) == <<SystemMessage(text)>>

reset_conversation_history(io) ==
    /\ conversation_history' = ResetLog(system_message)
    /\ history_file' =
           save_conversation_history(conversation_history', history_file, io)
    /\ last' = Outcome("reset_conversation_history", None, "none", None,
                       "none", "none", io)
    /\ UNCHANGED <<api_key, client, token_budget, system_messages, system_message,
                   pc, enforce_in>>

\* NewClient left out: update_api_key stores the key and keeps the old client.
NewClient_KeepOld(new_api_key) == client

\* OpenAI(api_key=new_api_key): the client update_api_key builds.
NewClient(new_api_key) == new_api_key

update_api_key(new_api_key) ==
    /\ api_key' = new_api_key
    /\ client' = NewClient(new_api_key)
    /\ last' = Outcome("update_api_key", new_api_key, "none", None,
                       "none", "none", "none")
    /\ UNCHANGED <<token_budget, system_messages, system_message,
                   conversation_history, history_file, pc, enforce_in>>

(***************************************************************************)
(* Spec: one session after another over one history file.                  *)
(***************************************************************************)
\* The other reader has not opened the file.
NotRead == [kind |-> "unread", data |-> <<>>]

\* Nothing is recorded about the run.
NothingObserved ==
    /\ sent = <<>>
    /\ appended = <<>>
    /\ base = <<>>
    /\ observed = NotRead

Unobserved == UNCHANGED <<sent, appended, base, observed>>

\* The first controller: ConversationManager(''), over a path that names no
\* file yet or a file json.load refuses.
Init ==
    /\ api_key = ""
    /\ token_budget \in Budgets
    /\ system_messages = InitialSystemMessages
    /\ system_message = InitialSystemMessages["sassy_assistant"]
    /\ history_file \in {AbsentFile, CorruptFile}
    /\ conversation_history =
           load_conversation_history(history_file,
                                     InitialSystemMessages["sassy_assistant"])
    /\ last = Outcome("__init__", "", "none", None, "none", "none", "none")
    /\ pc = "idle"
    /\ enforce_in = <<>>
    /\ client = ""
    /\ NothingObserved

Next ==
    \/ \E key \in Credentials : ConversationManager_init(key) /\ Unobserved
    \/ \E persona \in PersonaInputs : set_persona(persona) /\ Unobserved
    \/ \E text \in CustomInputs : set_custom_system_message(text) /\ Unobserved
    \/ \E prompt \in Prompts, completion \in CompletionOutcomes,
          reply \in Replies, io \in IOOutcomes :
           chat_completion(prompt, completion, reply, io) /\ Unobserved
    \/ \E io \in IOOutcomes : reset_conversation_history(io) /\ Unobserved
    \/ \E key \in Credentials : update_api_key(key) /\ Unobserved

Spec == Init /\ [][Next]_vars

(***************************************************************************)
(* SpecSeeded: controllers that find no history file when constructed.     *)
(* The path of __init__ names no file at the start, and a later            *)
(* constructor runs only while no file exists.                             *)
(***************************************************************************)
InitSeeded == Init /\ history_file = AbsentFile

NextSeeded ==
    \/ \E key \in Credentials :
           history_file = AbsentFile /\ ConversationManager_init(key) /\ Unobserved
    \/ \E persona \in PersonaInputs : set_persona(persona) /\ Unobserved
    \/ \E custom_message \in CustomInputs :
           set_custom_system_message(custom_message) /\ Unobserved
    \/ \E prompt \in Prompts, completion \in CompletionOutcomes,
          reply \in Replies, io \in IOOutcomes :
           chat_completion(prompt, completion, reply, io) /\ Unobserved
    \/ \E io \in IOOutcomes : reset_conversation_history(io) /\ Unobserved
    \/ \E key \in Credentials : update_api_key(key) /\ Unobserved

SpecSeeded == InitSeeded /\ [][NextSeeded]_vars

(***************************************************************************)
(* SpecHistory: the operations that add to the log or remove from it       *)
(* (constructor, set_persona, chat_completion, reset), with a record of    *)
(* the chat messages the log was given.  base holds the user and assistant *)
(* messages the last constructor loaded from the file, appended those      *)
(* chat_completion has appended since the last constructor or reset.       *)
(***************************************************************************)
\* The appended messages followed.
MaxAppended == 4

\* The messages of a log that are not system messages, in order.
NonSystem(h) == SelectSeq(h, LAMBDA m : m.role # "system")

\* What one call of chat_completion appends: the prompt, and the reply when
\* the request succeeds.
ChatAppends(prompt, completion, reply) ==
    IF completion = "ok"
    THEN <<Message("user", prompt), Message("assistant", reply)>>
    ELSE <<Message("user", prompt)>>

HistoryInit(key) ==
    /\ ConversationManager_init(key)
    /\ base' = NonSystem(conversation_history')
    /\ appended' = <<>>
    /\ UNCHANGED <<sent, observed>>

HistoryChat(prompt, completion, reply, io) ==
    /\ Len(appended) + Len(ChatAppends(prompt, completion, reply)) <= MaxAppended
    /\ chat_completion(prompt, completion, reply, io)
    /\ appended' = appended \o ChatAppends(prompt, completion, reply)
    /\ UNCHANGED <<base, sent, observed>>

HistoryReset(io) ==
    /\ reset_conversation_history(io)
    /\ base' = <<>>
    /\ appended' = <<>>
    /\ UNCHANGED <<sent, observed>>

NextHistory ==
    \/ \E key \in Credentials : HistoryInit(key)
    \/ \E persona \in PersonaInputs : set_persona(persona) /\ Unobserved
    \/ \E prompt \in Prompts, completion \in CompletionOutcomes,
          reply \in Replies, io \in IOOutcomes :
           HistoryChat(prompt, completion, reply, io)
    \/ \E io \in IOOutcomes : HistoryReset(io)

SpecHistory == Init /\ [][NextHistory]_vars

(***************************************************************************)
(* SpecRate: the requests of one session against the clock.  sent holds    *)
(* the age in seconds of every request issued in the trailing period,      *)
(* oldest first; the program keeps no such record and reads no clock.      *)
(***************************************************************************)
\* The limit and the period of the rate limiter the specification describes.
RateLimit == 3
RatePeriod == 60

\* The requests followed, and the seconds between two looks at the clock.
MaxSent == 4
TickSeconds == 30

program == <<api_key, token_budget, system_messages, system_message,
             conversation_history, history_file, last, pc, enforce_in, client>>

InPeriod(age) == age <= RatePeriod

\* chat_completion, with the request it issues noted at age 0.
RateChat(prompt, completion, reply) ==
    /\ Len(sent) < MaxSent
    /\ chat_completion(prompt, completion, reply, "ok")
    /\ sent' = IF last'.requests >= 1 THEN Append(sent, 0) ELSE sent
    /\ UNCHANGED <<appended, base, observed>>

\* Time passes between two calls: the program does nothing.
RateTick ==
    /\ sent # <<>>
    /\ sent' = SelectSeq([i \in 1..Len(sent) |-> sent[i] + TickSeconds], InPeriod)
    /\ UNCHANGED program
    /\ UNCHANGED <<appended, base, observed>>

NextRate ==
    \/ \E prompt \in Prompts, completion \in CompletionOutcomes, reply \in Replies :
           RateChat(prompt, completion, reply)
    \/ RateTick

SpecRate == Init /\ [][NextRate]_vars

(***************************************************************************)
(* SpecEnforce: enforce_token_budget alone, one loop test per step, from   *)
(* every log and budget of the bounds.                                     *)
(***************************************************************************)
SystemTexts == {InitialSystemMessages[k] : k \in PersonaInputs \cap PersonaKeys}
                   \cup (CustomInputs \ {EmptyText})

\* The messages chat_completion appends.
ChatMessages == {Message("user", p) : p \in Prompts}
                    \cup {Message("assistant", r) : r \in Replies}

\* Logs as the controller keeps them: the system message, then the messages
\* of the chat.
EnforceLogs ==
    {<<SystemMessage(t)>> \o tail :
        t \in SystemTexts,
        tail \in UNION {[1..n -> ChatMessages] : n \in 0..(MaxLen - 1)}}

InitEnforce ==
    /\ api_key = ""
    /\ token_budget \in 0..MaxBudget
    /\ system_messages = InitialSystemMessages
    /\ system_message = InitialSystemMessages["sassy_assistant"]
    /\ history_file = AbsentFile
    /\ conversation_history \in EnforceLogs
    /\ last = Outcome("enforce_token_budget", None, "none", None,
                      "none", "none", "none")
    /\ pc = "while"
    /\ enforce_in = conversation_history
    /\ client = ""
    /\ NothingObserved

EnforceFrame ==
    UNCHANGED <<api_key, client, token_budget, system_messages, system_message,
                history_file, last, enforce_in, sent, appended, base, observed>>

\* while total > budget: ...: pop(1)
EnforcePop ==
    /\ pc = "while"
    /\ EnforceBranch(conversation_history, token_budget) = "pop"
    /\ conversation_history' = Pop(conversation_history, PopIndex)
    /\ pc' = "while"
    /\ EnforceFrame

\* if len(...) <= 1: break
EnforceBreak ==
    /\ pc = "while"
    /\ EnforceBranch(conversation_history, token_budget) = "break"
    /\ pc' = "done"
    /\ UNCHANGED conversation_history
    /\ EnforceFrame

\* the while condition is false
EnforceExit ==
    /\ pc = "while"
    /\ EnforceBranch(conversation_history, token_budget) = "exit"
    /\ pc' = "done"
    /\ UNCHANGED conversation_history
    /\ EnforceFrame

\* total_tokens_used() returned None: TypeError, caught and printed
EnforceExcept ==
    /\ pc = "while"
    /\ EnforceBranch(conversation_history, token_budget) = "except"
    /\ pc' = "done"
    /\ UNCHANGED conversation_history
    /\ EnforceFrame

NextEnforce == EnforcePop \/ EnforceBreak \/ EnforceExit \/ EnforceExcept

\* The method runs on one thread with nothing to wait for: a step that can
\* be taken is taken.
SpecEnforce == InitEnforce /\ [][NextEnforce]_vars /\ WF_vars(NextEnforce)

(***************************************************************************)
(* SpecSave: save_conversation_history alone, one system call per step,    *)
(* with a second reader of the same path: another controller whose         *)
(* timestamped file name fell in the same second, or anything else that    *)
(* opens the file.  observed is what that reader found in the file.        *)
(***************************************************************************)
\* The file before the save: none yet, or the log of an earlier save.
SavedBefore == {AbsentFile} \cup {JsonFile(JsonDump(<<SystemMessage(t)>>)) : t \in SystemTexts}

InitSave ==
    /\ api_key = ""
    /\ token_budget \in Budgets
    /\ system_messages = InitialSystemMessages
    /\ system_message = InitialSystemMessages["sassy_assistant"]
    /\ history_file \in SavedBefore
    /\ conversation_history \in EnforceLogs
    /\ last = Outcome("save_conversation_history", None, "none", None,
                      "none", "none", "none")
    /\ pc = "open"
    /\ enforce_in = <<>>
    /\ client = ""
    /\ NothingObserved

SaveFrame ==
    UNCHANGED <<api_key, client, token_budget, system_messages, system_message,
                conversation_history, enforce_in, sent, appended, base>>

\* open(self.history_file, "w") succeeds: the file exists and is empty.
SaveOpen ==
    /\ pc = "open"
    /\ history_file' = CorruptFile
    /\ pc' = "dump"
    /\ UNCHANGED <<last, observed>>
    /\ SaveFrame

\* open(self.history_file, "w") raises: caught and printed, the file is as
\* it was.
SaveOpenFailed ==
    /\ pc = "open"
    /\ history_file' = save_conversation_history(conversation_history,
                                                 history_file, "open_failed")
    /\ last' = [last EXCEPT !.save = "open_failed"]
    /\ pc' = "done"
    /\ UNCHANGED observed
    /\ SaveFrame

\* json.dump(...) and the close of the file: the whole log is in the file,
\* or the write raised part way, caught and printed.
SaveDump(io) ==
    /\ pc = "dump"
    /\ history_file' = save_conversation_history(conversation_history,
                                                 history_file, io)
    /\ last' = [last EXCEPT !.save = io]
    /\ pc' = "done"
    /\ UNCHANGED observed
    /\ SaveFrame

\* The other reader opens the path and reads what is there.
ReaderLoad ==
    /\ observed = NotRead
    /\ observed' = history_file
    /\ UNCHANGED <<history_file, last, pc>>
    /\ SaveFrame

NextSave ==
    \/ SaveOpen
    \/ SaveOpenFailed
    \/ \E io \in {"ok", "write_failed"} : SaveDump(io)
    \/ ReaderLoad

SpecSave == InitSave /\ [][NextSave]_vars

(***************************************************************************)
(* Properties.                                                             *)
(***************************************************************************)
\* A text that is empty or whitespace only.
IsBlank(text) == text \in {EmptyText, BlankText}

\* The step just taken was a call of op.
Called(op) == last'.op = op

\* The file holds exactly the log h.
Persisted(h) == history_file.kind = "json" /\ JsonLoad(history_file.data) = h

\* C1: from every log whose token total is over the budget and that holds
\* more than one message, enforce_token_budget terminates; when it has, the
\* total is within the budget or one message is left; the message at index 0
\* stays in place throughout; and the loop leaves the log the method's
\* operator enforce_token_budget computes.
C1_Pre ==
    /\ CanCount(enforce_in)
    /\ total_tokens_used(enforce_in) > token_budget
    /\ Len(enforce_in) > 1

C1_EnforceTerminates ==
    /\ (C1_Pre ~> pc = "done")
    /\ [](C1_Pre /\ pc = "done" =>
            \/ total_tokens_used(conversation_history) <= token_budget
            \/ Len(conversation_history) = 1)
    /\ [](C1_Pre => /\ Len(conversation_history) >= 1
                    /\ conversation_history[1] = enforce_in[1])
    /\ [](pc = "done" =>
            conversation_history = enforce_token_budget(enforce_in, token_budget))

\* Enforcement ended within the budget after evicting, with more than one
\* message left.
C1_Witness ==
    /\ C1_Pre
    /\ pc = "done"
    /\ Len(conversation_history) > 1
    /\ Len(conversation_history) < Len(enforce_in)
    /\ total_tokens_used(conversation_history) <= token_budget

PromptEvicted(h, prompt, budget) ==
    /\ CanCount(Append(h, Message("user", prompt)))
    /\ count_tokens(h[1].content) + count_tokens(prompt) > budget

C3_SystemOnlyAtHead ==
    \A i \in 1..Len(conversation_history) :
        conversation_history[i].role = "system" => i = 1

\* A persona switch on a log that holds chat messages behind its system
\* message.
C3_Witness ==
    /\ last.op = "set_persona"
    /\ last.raised = "none"
    /\ Len(conversation_history) >= 3
    /\ conversation_history[1].role = "system"

\* C4: set_persona with a key of the registry changes the length of the log
\* by at most one, keeps the non-system messages as they were, in order, and
\* leaves at index 0 the system message with the registry's text of the key.
C4_SetPersonaFrame ==
    [][Called("set_persona") /\ last'.arg \in DOMAIN system_messages =>
        /\ Len(conversation_history') - Len(conversation_history) \in {-1, 0, 1}
        /\ NonSystem(conversation_history') = NonSystem(conversation_history)
        /\ conversation_history' # <<>>
        /\ conversation_history'[1] = SystemMessage(system_messages[last'.arg])
    ]_vars

\* A switch to the thoughtful persona over a log with two chat messages.
C4_Witness ==
    /\ last.op = "set_persona"
    /\ last.arg = "thoughtful_assistant"
    /\ Len(NonSystem(conversation_history)) >= 2
    /\ conversation_history[1] = SystemMessage(ThoughtfulText)

\* C5 as stated: set_custom_system_message with an empty or blank text raises
\* and leaves the log, the current persona text and the registry as they were.
C5_AsStated ==
    [][Called("set_custom_system_message") /\ IsBlank(last'.arg) =>
        /\ last'.raised # "none"
        /\ UNCHANGED <<conversation_history, system_message, system_messages>>
    ]_vars

\* C6: set_persona with a key that is not in the registry raises ValueError
\* and leaves the log, the current persona text and the registry as they were.
C6_UnknownPersona ==
    [][Called("set_persona") /\ last'.arg \notin DOMAIN system_messages =>
        /\ last'.raised = "ValueError"
        /\ UNCHANGED <<conversation_history, system_message, system_messages>>
    ]_vars

\* An unknown key refused while a custom persona is current and the log
\* holds chat messages.
C6_Witness ==
    /\ last.op = "set_persona"
    /\ last.arg = UnknownKey
    /\ last.raised = "ValueError"
    /\ system_message = PirateText
    /\ Len(conversation_history) >= 2

\* C7 as stated: after a chat_completion whose request succeeded, the reply
\* is the last message of the log and is what was returned, and the file
\* holds the log.
C7_AsStated ==
    last.op = "chat_completion" /\ last.completion = "ok" =>
        /\ last.returned \in Replies
        /\ conversation_history[Len(conversation_history)]
               = Message("assistant", last.returned)
        /\ Persisted(conversation_history)

\* C7, amended: a chat_completion whose request succeeds raises nothing and
\* returns the reply; the log it leaves is the old log with the user message
\* appended, the budget enforced on that, and then the reply appended as the
\* last message; when the write of the file succeeds the file holds that
\* log, and when open() fails the file is as it was.
C7_SuccessfulChat ==
    [][Called("chat_completion") /\ last'.completion = "ok" =>
        /\ last'.raised = "none"
        /\ last'.returned \in Replies
        /\ conversation_history' =
               Append(enforce_token_budget(
                          Append(conversation_history,
                                 Message("user", last'.arg)),
                          token_budget),
                      Message("assistant", last'.returned))
        /\ last'.save = "ok" => Persisted(conversation_history)'
        /\ last'.save = "open_failed" => UNCHANGED history_file
    ]_vars

\* A successful request, saved: the prompt and then the reply end the log
\* and the file holds it.
C7_Witness ==
    /\ last.op = "chat_completion"
    /\ last.completion = "ok"
    /\ last.save = "ok"
    /\ Len(conversation_history) = 3
    /\ conversation_history[2] = Message("user", last.arg)
    /\ conversation_history[3] = Message("assistant", last.returned)
    /\ Persisted(conversation_history)

C10_AsStated ==
    last.op = "reset_conversation_history" =>
        /\ conversation_history = <<SystemMessage(system_message)>>
        /\ Persisted(conversation_history)

\* C10, amended: reset_conversation_history raises nothing, leaves the log
\* of one system message with the current persona text, and leaves persona,
\* registry and credential as they were; when the write of the file
\* succeeds the file holds that log, and when open() fails the file is as it
\* was.
C10_Reset ==
    [][Called("reset_conversation_history") =>
        /\ last'.raised = "none"
        /\ conversation_history' = <<SystemMessage(system_message)>>
        /\ UNCHANGED <<system_message, system_messages, api_key>>
        /\ last'.save = "ok" => Persisted(conversation_history)'
        /\ last'.save = "open_failed" => UNCHANGED history_file
    ]_vars

\* A reset under a custom persona and a changed credential, saved.
C10_Witness ==
    /\ last.op = "reset_conversation_history"
    /\ last.save = "ok"
    /\ system_message = PirateText
    /\ api_key = "sk-1"
    /\ conversation_history = <<SystemMessage(PirateText)>>
    /\ Persisted(conversation_history)

\* The call just made appended the reply behind the prompt, or behind the
\* message at index 0 alone when the prompt was evicted with all the rest.
EndsWithExchange(h, before, prompt, reply, budget) ==
    /\ Len(h) >= 2
    /\ h[Len(h)] = Message("assistant", reply)
    /\ IF PromptEvicted(before, prompt, budget)
       THEN h = <<before[1], Message("assistant", reply)>>
       ELSE Len(h) >= 3 /\ h[Len(h) - 1] = Message("user", prompt)

\* C12 as stated: after a successful chat_completion whose save failed,
\* nothing was raised, the reply was returned and the log ends with the user
\* message followed by the reply; after a reset whose save failed the log is
\* the one system message.
C12_AsStated ==
    /\ last.op = "chat_completion" /\ last.completion = "ok" /\ last.save # "ok" =>
        /\ last.raised = "none"
        /\ last.returned \in Replies
        /\ Len(conversation_history) >= 3
        /\ conversation_history[Len(conversation_history) - 1]
               = Message("user", last.arg)
        /\ conversation_history[Len(conversation_history)]
               = Message("assistant", last.returned)
    /\ last.op = "reset_conversation_history" /\ last.save # "ok" =>
        conversation_history = <<SystemMessage(system_message)>>

\* C12, amended: a successful chat_completion whose save fails raises
\* nothing, shows no error and returns the reply, and the log ends with the
\* user message followed by the reply, or is the message at index 0 followed
\* by the reply when index 0 and the prompt alone were over the budget; a
\* reset whose save fails raises nothing and leaves the one system message.
C12_SaveFailure ==
    [][/\ Called("chat_completion") /\ last'.completion = "ok"
              /\ last'.save # "ok" =>
            /\ last'.raised = "none"
            /\ last'.st_error = "none"
            /\ last'.returned \in Replies
            /\ EndsWithExchange(conversation_history', conversation_history,
                                last'.arg, last'.returned, token_budget)
       /\ Called("reset_conversation_history") /\ last'.save # "ok" =>
            /\ last'.raised = "none"
            /\ conversation_history' = <<SystemMessage(system_message)>>
    ]_vars

\* A reply appended behind its prompt and returned although the write of
\* the file was cut short.
C12_Witness ==
    /\ last.op = "chat_completion"
    /\ last.completion = "ok"
    /\ last.save = "write_failed"
    /\ history_file = CorruptFile
    /\ last.returned \in Replies
    /\ Len(conversation_history) = 3
    /\ conversation_history[2] = Message("user", last.arg)
    /\ conversation_history[3] = Message("assistant", last.returned)

\* C13: update_api_key(c) stores c and leaves the log, the current persona
\* and the registry as they were; every request of a chat_completion is
\* issued with the credential stored last; and only update_api_key and the
\* constructor store a credential.
C13_Credential ==
    /\ [][Called("update_api_key") =>
            /\ api_key' = last'.arg
            /\ UNCHANGED <<conversation_history, system_message, system_messages>>
       ]_vars
    /\ [][Called("chat_completion") =>
            last'.requests >= 1 /\ last'.credential = api_key]_vars
    /\ [][api_key' # api_key =>
            Called("update_api_key") \/ Called("__init__")]_vars

\* A request issued with the credential a call of update_api_key stored.
C13_Witness ==
    /\ last.op = "chat_completion"
    /\ last.requests >= 1
    /\ last.credential = "sk-1"
    /\ api_key = "sk-1"
    /\ Len(conversation_history) >= 2

\* What the caller of chat_completion gets from the call.
CallerSees(raised, returned) == <<raised, returned>>

C19_FileWriters ==
    /\ [][history_file' # history_file =>
            \/ Called("chat_completion") /\ last'.completion = "ok"
            \/ Called("reset_conversation_history")]_vars
    /\ [][\/ Called("chat_completion") /\ last'.completion # "ok"
          \/ Called("set_persona")
          \/ Called("set_custom_system_message")
          \/ Called("update_api_key")
          => UNCHANGED history_file]_vars

\* A failed request has changed the log in memory while the file holds an
\* older log.
C19_Witness ==
    /\ last.op = "chat_completion"
    /\ last.completion # "ok"
    /\ history_file.kind = "json"
    /\ ~Persisted(conversation_history)
    /\ Len(conversation_history) >= 2

\* C18: in every state of a controller constructed with no history file,
\* the log is not empty and its message at index 0 is a system message whose
\* content is the current persona text.
C18_SeededHead ==
    /\ conversation_history # <<>>
    /\ conversation_history[1] = SystemMessage(system_message)

\* A persona change followed by an exchange: the head carries the new text
\* with chat messages behind it.
C18_Witness ==
    /\ system_message = ThoughtfulText
    /\ conversation_history[1] = SystemMessage(ThoughtfulText)
    /\ Len(conversation_history) >= 2
    /\ last.op = "chat_completion"

\* C11 as stated: no more than three requests are issued in any period of
\* 60 seconds; a call that would be the fourth issues none.
C11_AsStated == Len(sent) <= RateLimit

\* C15 as stated: a reader of the history file finds the whole previous
\* content or the whole new content, never a file written in part, whenever
\* it reads while a save that does not fail is under way or done.
C15_AsStated ==
    observed # NotRead /\ last.save \in {"none", "ok"} =>
        \/ observed \in SavedBefore
        \/ observed = JsonFile(JsonDump(conversation_history))

\* s is the end of t: a contiguous suffix, in order.
IsSuffix(s, t) ==
    /\ Len(s) <= Len(t)
    /\ s = SubSeq(t, Len(t) - Len(s) + 1, Len(t))

\* Enforcement of a log keeps its message at index 0 and an end of the rest.
KeepsHeadAndSuffix(L, budget) ==
    LET R == enforce_token_budget(L, budget)
    IN  /\ R # <<>>
        /\ R[1] = L[1]
        /\ IsSuffix(Tail(R), Tail(L))

\* C17 as stated: the user and assistant messages of the log are the end of
\* the sequence of messages appended since the last constructor or reset.
C17_AsStated == IsSuffix(NonSystem(conversation_history), appended)

\* C17, amended: enforce_token_budget on a log L leaves L[0] followed by a
\* contiguous suffix of L[1:], every kept message as it was; and the user
\* and assistant messages of the log are always a contiguous suffix, in
\* order, of the messages the last constructor loaded from the history file
\* followed by those appended since that constructor or the last reset.
C17_OldestFirst ==
    /\ IsSuffix(NonSystem(conversation_history), base \o appended)
    /\ \A prompt \in Prompts :
           KeepsHeadAndSuffix(Append(conversation_history,
                                     Message("user", prompt)), token_budget)

\* Loaded messages and appended ones, with the oldest of them evicted.
C17_Witness ==
    /\ base # <<>>
    /\ appended # <<>>
    /\ Len(conversation_history) >= 2
    /\ NonSystem(conversation_history) # base \o appended
    /\ IsSuffix(NonSystem(conversation_history), base \o appended)

====
